---- MODULE Spec2Model ----
(***************************************************************************)
(* Model of src/app/page.tsx: the Page component of local-first-explorer.  *)
(* State: the collaborator's path -> File mapping, the `files` value the   *)
(* last render captured, the React state (fileTree, selectedFile,          *)
(* isLoading) and the metadata panel's size text.  Strings are sequences   *)
(* of one-character strings so that split("/") and join("/") are computed. *)
(***************************************************************************)
EXTENDS Integers, Sequences, FiniteSets, TLC

VARIABLES files, rendered, needsRender, effectPending,
          fileTree, selectedFile, isLoading, lastClick, metadata

vars == <<files, rendered, needsRender, effectPending,
          fileTree, selectedFile, isLoading, lastClick, metadata>>

\* ---------------------------------------------------------------- bounds
MaxSegments == 7
MaxFiles == 3
MaxUIFiles == 2
Span == 12

\* ------------------------------------------------------------ universes
\* entry names; the collaborator's relative paths are names joined with "/"
Names == {<<"a">>, <<"b", "c">>}
UIPaths == {<<"a", "/", "a">>, <<"a", "/", "b", "c">>, <<"b", "c", "/", "a">>}
UISizes == {1023, 1536}

Null == [type |-> "null"]
NoClick == <<"none">>

\* A File object of the mapping: the attributes the page reads.
FileObj(p, s) == [path |-> p, size |-> s]

\* ------------------------------------------------------- string helpers
RECURSIVE SplitAcc(_, _, _, _)
SplitAcc(s, i, acc, cur) ==
  IF i > Len(s) THEN Append(acc, cur)
  ELSE IF s[i] = "/" THEN SplitAcc(s, i + 1, Append(acc, cur), <<>>)
  ELSE SplitAcc(s, i + 1, acc, Append(cur, s[i]))

\* path.split("/")
Split(s) == SplitAcc(s, 1, <<>>, <<>>)

RECURSIVE Join(_)
\* parts.join("/")
Join(parts) ==
  IF Len(parts) = 0 THEN <<>>
  ELSE IF Len(parts) = 1 THEN parts[1]
  ELSE parts[1] \o <<"/">> \o Join(Tail(parts))

\* the segment lists of the relative paths of at most d segments
SegLists(d) == UNION {[1..n -> Names] : n \in 1..d}

\* ------------------------------------------------------------ the Map
\* files.get(path): the File stored under the key, or Null (undefined)
MapGet(m, p) ==
  IF \E i \in 1..Len(m) : m[i].path = p
  THEN (CHOOSE e \in {m[i] : i \in 1..Len(m)} : e.path = p).file
  ELSE Null

MapHas(m, p) == \E i \in 1..Len(m) : m[i].path = p

\* Map.set on a new key appends; on an existing key it keeps the position
MapSet(m, p, f) ==
  IF MapHas(m, p)
  THEN [i \in 1..Len(m) |-> IF m[i].path = p THEN [path |-> p, file |-> f] ELSE m[i]]
  ELSE Append(m, [path |-> p, file |-> f])

RECURSIVE MapDelete(_, _)
MapDelete(m, p) ==
  IF Len(m) = 0 THEN <<>>
  ELSE IF m[1].path = p THEN Tail(m)
  ELSE <<m[1]>> \o MapDelete(Tail(m), p)

\* ------------------------------------------------------ updateFileTree
FileNode(part, path) == [name |-> part, type |-> "file", path |-> path]

DirNode(part, path) ==
  [name |-> part, type |-> "directory", children |-> <<>>, path |-> path]

SyntheticRoot ==
  [name |-> <<"R", "o", "o", "t">>, type |-> "directory", children |-> <<>>, path |-> <<>>]

\* current.children?.find((c) => c.name === part): index of the first match, 0 if none
FindChild(children, part) ==
  IF \E i \in 1..Len(children) : children[i].name = part
  THEN CHOOSE i \in 1..Len(children) :
         /\ children[i].name = part
         /\ \A j \in 1..(i - 1) : children[j].name # part
  ELSE 0

\* mutant: slice(0, index), the prefix without the segment itself
SlicePathShort(parts, index) == Join(SubSeq(parts, 1, index - 1))

\* parts.slice(0, index + 1).join("/"), index counted from 1 here
SlicePath(parts, index) == Join(SubSeq(parts, 1, index))

RECURSIVE InsertPart(_, _, _, _)
\* The parts.forEach walk from `current` at position index, as the subtree
\* it leaves behind.  A node without children (a file) is left as it is:
\* children?.find and children?.push do nothing on it and the directories
\* created below it are never attached.
InsertPart(current, parts, index, path) ==
  IF "children" \notin DOMAIN current THEN current
  ELSE IF index = Len(parts)
  THEN [current EXCEPT !.children = Append(@, FileNode(parts[index], path))]
  ELSE LET k == FindChild(current.children, parts[index]) IN
       IF k = 0
       THEN [current EXCEPT !.children =
               Append(@, InsertPart(DirNode(parts[index], SlicePath(parts, index)),
                                    parts, index + 1, path))]
       ELSE [current EXCEPT !.children[k] = InsertPart(@, parts, index + 1, path)]

RECURSIVE ForEachFile(_, _, _)
\* files.forEach((file, path) => ...) in the mapping's iteration order
ForEachFile(root, m, i) ==
  IF i > Len(m) THEN root
  ELSE ForEachFile(InsertPart(root, Split(m[i].path), 1, m[i].path), m, i + 1)

\* the synthetic root after the forEach
BuildRoot(m) == ForEachFile(SyntheticRoot, m, 1)

\* mutant: the last top-level entry instead of the first
LastChild(root) ==
  IF Len(root.children) > 0 THEN root.children[Len(root.children)] ELSE Null

\* root.children?.[0] || null
FirstChild(root) == IF Len(root.children) > 0 THEN root.children[1] ELSE Null

\* the value updateFileTree passes to setFileTree
UpdatedTree(m) == FirstChild(BuildRoot(m))

\* ------------------------------------------------------ formatFileSize
DigitChars == <<"0", "1", "2", "3", "4", "5", "6", "7", "8", "9">>

RECURSIVE Digits(_)
\* decimal digits of a natural number, as a string
Digits(n) ==
  IF n < 10 THEN <<DigitChars[n + 1]>>
  ELSE Digits(n \div 10) \o Digits(n % 10)

\* (bytes / d).toFixed(2) for d a power of 1024: bytes/d rounded to the
\* nearest hundredth (a tie goes up), in hundredths.  The product is taken
\* in two limbs of d \div 1024 to stay inside TLC's integers.
Hundredths(bytes, d) ==
  LET m  == d \div 1024
      r  == bytes % d
      rh == r \div m
      rl == r % m
      y  == 200 * rl + 1024 * m
  IN (bytes \div d) * 100 + ((200 * rh + (y \div m)) \div 2048)

ToFixed2(bytes, d) ==
  LET h == Hundredths(bytes, d)
      f == h % 100
  IN Digits(h \div 100) \o <<".">> \o (IF f < 10 THEN <<"0">> ELSE <<>>) \o Digits(f)

\* mutant: the tier bounds compared with <= instead of <
FormatFileSizeInclusive(bytes) ==
  IF bytes <= 1024 THEN Digits(bytes) \o <<" ", "b", "y", "t", "e", "s">>
  ELSE IF bytes <= 1048576 THEN ToFixed2(bytes, 1024) \o <<" ", "K", "B">>
  ELSE IF bytes <= 1073741824 THEN ToFixed2(bytes, 1048576) \o <<" ", "M", "B">>
  ELSE ToFixed2(bytes, 1073741824) \o <<" ", "G", "B">>

FormatFileSize(bytes) ==
  IF bytes < 1024 THEN Digits(bytes) \o <<" ", "b", "y", "t", "e", "s">>
  ELSE IF bytes < 1048576 THEN ToFixed2(bytes, 1024) \o <<" ", "K", "B">>
  ELSE IF bytes < 1073741824 THEN ToFixed2(bytes, 1048576) \o <<" ", "M", "B">>
  ELSE ToFixed2(bytes, 1073741824) \o <<" ", "G", "B">>

\* the metadata card: the Size line of the selected file, Null for the
\* "Select a file to view its metadata" placeholder
MetadataPanel(f) ==
  IF f = Null THEN Null ELSE [type |-> "card", size |-> FormatFileSize(f.size)]

\* --------------------------------------------------------------- state
Keys(m) == {m[i].path : i \in 1..Len(m)}

\* useState initial values and the first render; the mount effect is pending
Init ==
  /\ files = <<>>
  /\ rendered = <<>>
  /\ needsRender = FALSE
  /\ effectPending = TRUE
  /\ fileTree = Null
  /\ selectedFile = Null
  /\ isLoading = FALSE
  /\ lastClick = NoClick
  /\ metadata = Null

\* mutant: the closing setIsLoading(false) is missing
UpdateFileTreeLoading(m) ==
  /\ fileTree' = UpdatedTree(m)
  /\ isLoading' = TRUE

\* updateFileTree(m): setIsLoading(true), build, setFileTree, setIsLoading(false)
UpdateFileTree(m) ==
  /\ fileTree' = UpdatedTree(m)
  /\ isLoading' = FALSE

\* The collaborator replaces its mapping and calls a callback of the last
\* render, whose `files` is the mapping that render saw.
Notify(newFiles) ==
  /\ files' = newFiles
  /\ needsRender' = TRUE
  /\ UpdateFileTree(rendered)
  /\ lastClick' = NoClick
  /\ UNCHANGED <<rendered, effectPending, selectedFile, metadata>>

\* onFilesAdded
FilesAdded ==
  \E p \in UIPaths \ Keys(files), s \in UISizes :
    /\ Len(files) < MaxUIFiles
    /\ Notify(MapSet(files, p, FileObj(p, s)))

\* onFilesChanged
FilesChanged ==
  \E p \in Keys(files), s \in UISizes :
    /\ MapGet(files, p).size # s
    /\ Notify(MapSet(files, p, FileObj(p, s)))

\* onFilesDeleted
FilesDeleted ==
  \E p \in Keys(files) : Notify(MapDelete(files, p))

\* mutant: the effect has no dependency on files and runs on mount only
RenderNoEffect ==
  /\ needsRender
  /\ rendered' = files
  /\ needsRender' = FALSE
  /\ lastClick' = NoClick
  /\ UNCHANGED <<files, effectPending, fileTree, selectedFile, isLoading, metadata>>

\* The re-render after the hook's `files` changed: the new closures capture
\* the current mapping and the effect's dependency [files] has changed.
Render ==
  /\ needsRender
  /\ rendered' = files
  /\ needsRender' = FALSE
  /\ effectPending' = TRUE
  /\ lastClick' = NoClick
  /\ UNCHANGED <<files, fileTree, selectedFile, isLoading, metadata>>

\* useEffect(() => updateFileTree(files), [files])
RunEffect ==
  /\ effectPending
  /\ effectPending' = FALSE
  /\ UpdateFileTree(rendered)
  /\ lastClick' = NoClick
  /\ UNCHANGED <<files, rendered, needsRender, selectedFile, metadata>>

RECURSIVE NodePaths(_)
\* the paths of the buttons renderFileTree draws for a node
NodePaths(node) ==
  IF node = Null THEN {}
  ELSE IF node.type = "directory"
  THEN {node.path} \cup UNION {NodePaths(node.children[i]) : i \in 1..Len(node.children)}
  ELSE {node.path}

\* mutant: setSelectedFile(file ?? null) without the `if (file)` guard
HandleFileSelectUnguarded(path) ==
  /\ ~isLoading
  /\ path \in NodePaths(fileTree)
  /\ selectedFile' = MapGet(rendered, path)
  /\ metadata' = MetadataPanel(selectedFile')
  /\ lastClick' = path
  /\ UNCHANGED <<files, rendered, needsRender, effectPending, fileTree, isLoading>>

\* onClick of a drawn node: handleFileSelect(node.path), then the panel redraw
HandleFileSelect(path) ==
  /\ ~isLoading
  /\ path \in NodePaths(fileTree)
  /\ LET file == MapGet(rendered, path) IN
       selectedFile' = IF file # Null THEN file ELSE selectedFile
  /\ metadata' = MetadataPanel(selectedFile')
  /\ lastClick' = path
  /\ UNCHANGED <<files, rendered, needsRender, effectPending, fileTree, isLoading>>

Select == \E path \in NodePaths(fileTree) : HandleFileSelect(path)

Next == RunEffect \/ Render \/ Select \/ FilesAdded \/ FilesChanged \/ FilesDeleted

Spec == Init /\ [][Next]_vars

\* what the left pane shows
View ==
  IF isLoading THEN "skeleton" ELSE IF fileTree # Null THEN "tree" ELSE "placeholder"

Quiescent == ~needsRender /\ ~effectPending

\* ------------------------------------------- the builder on any mapping
RECURSIVE ListsWithin(_, _)
\* the insertion-ordered lists of n unique paths with at most `budget`
\* segments in all
ListsWithin(n, budget) ==
  IF n = 0 THEN {<<>>}
  ELSE UNION {{<<Join(segs)>> \o l :
                 l \in {x \in ListsWithin(n - 1, budget - Len(segs)) :
                          \A i \in 1..Len(x) : x[i] # Join(segs)}} :
              segs \in SegLists(budget - (n - 1))}

\* every insertion-ordered list of at most MaxFiles unique paths with at
\* most MaxSegments segments in all
PathLists == UNION {ListsWithin(n, MaxSegments) : n \in 0..MaxFiles}

Mapping(l) == [i \in 1..Len(l) |-> [path |-> l[i], file |-> FileObj(l[i], 0)]]

\* the first render of a mapping, before its effect has run
InitBuild ==
  /\ files \in {Mapping(l) : l \in PathLists}
  /\ rendered = files
  /\ needsRender = FALSE
  /\ effectPending = TRUE
  /\ fileTree = Null
  /\ selectedFile = Null
  /\ isLoading = FALSE
  /\ lastClick = NoClick
  /\ metadata = Null

NextBuild == RunEffect

SpecBuild == InitBuild /\ [][NextBuild]_vars

\* ------------------------------------------ the formatter on any size
Tiers == {0, 1024, 1536, 1048576, 1073741824}

SizeInputs ==
  {n \in {t + e : t \in Tiers, e \in (0 - Span)..Span} : n >= 0} \cup {2147483647}

\* a selected file of any size, the card not yet drawn
InitFormat ==
  /\ files = <<>>
  /\ rendered = <<>>
  /\ needsRender = FALSE
  /\ effectPending = FALSE
  /\ fileTree = Null
  /\ selectedFile \in {FileObj(<<"a">>, n) : n \in SizeInputs}
  /\ isLoading = FALSE
  /\ lastClick = NoClick
  /\ metadata = Null

\* the metadata card of the render: formatFileSize(selectedFile.size)
RenderMetadata ==
  /\ metadata # MetadataPanel(selectedFile)
  /\ metadata' = MetadataPanel(selectedFile)
  /\ UNCHANGED <<files, rendered, needsRender, effectPending, fileTree,
                 selectedFile, isLoading, lastClick>>

NextFormat == RenderMetadata

SpecFormat == InitFormat /\ [][NextFormat]_vars

\* ------------------------------------------------------- tree measures
RECURSIVE SumSeq(_)
SumSeq(q) == IF Len(q) = 0 THEN 0 ELSE q[1] + SumSeq(Tail(q))

RECURSIVE Concat(_)
Concat(q) == IF Len(q) = 0 THEN <<>> ELSE q[1] \o Concat(Tail(q))

RECURSIVE CountFiles(_)
\* the number of nodes of type "file" reachable from a node
CountFiles(node) ==
  IF node = Null THEN 0
  ELSE IF "children" \in DOMAIN node
  THEN (IF node.type = "file" THEN 1 ELSE 0)
       + SumSeq([i \in 1..Len(node.children) |-> CountFiles(node.children[i])])
  ELSE IF node.type = "file" THEN 1 ELSE 0

RECURSIVE Flatten(_)
\* the nodes reachable from a node, in preorder, one entry per node
Flatten(node) ==
  IF "children" \in DOMAIN node
  THEN <<node>> \o Concat([i \in 1..Len(node.children) |-> Flatten(node.children[i])])
  ELSE <<node>>

\* the nodes below the synthetic root
BuiltNodes(m) == Tail(Flatten(BuildRoot(m)))

LastOf(q) == q[Len(q)]

TopSegment(p) == Split(p)[1]

Built == ~effectPending /\ ~needsRender /\ rendered = files

\* --------------------------------------------------------------- claims

\* C1: for every mapping of N >= 1 unique paths with the same first segment,
\* the synthetic root has exactly one child, it is the displayed fileTree,
\* and N nodes of type "file" are reachable from it.
C1_OneRootAllFiles ==
  (Built /\ Len(files) > 0
     /\ \A i \in 1..Len(files) : TopSegment(files[i].path) = TopSegment(files[1].path))
  => /\ Len(BuildRoot(files).children) = 1
     /\ fileTree = BuildRoot(files).children[1]
     /\ CountFiles(fileTree) = Len(files)

\* C2: no directory node of the built tree, the synthetic root included,
\* has two children with the same name.
C2_UniqueChildNames ==
  Built =>
    LET nodes == Flatten(BuildRoot(files)) IN
    \A k \in 1..Len(nodes) :
      "children" \in DOMAIN nodes[k] =>
        \A i, j \in 1..Len(nodes[k].children) :
          i # j => nodes[k].children[i].name # nodes[k].children[j].name

RECURSIVE PathsOk(_, _, _)
PathsOk(node, ancestors, m) ==
  IF node.type = "directory"
  THEN /\ node.path = Join(Append(ancestors, node.name))
       /\ \A i \in 1..Len(node.children) :
            PathsOk(node.children[i], Append(ancestors, node.name), m)
  ELSE /\ node.path \in Keys(m)
       /\ node.name = LastOf(Split(node.path))

\* C3: every directory node's path is its ancestors' names and its own name
\* joined with "/", every file node's path is a key of the mapping and its
\* name is that key's last segment.
C3_NodePaths ==
  Built =>
    /\ \A i \in 1..Len(BuildRoot(files).children) :
         PathsOk(BuildRoot(files).children[i], <<>>, files)
    /\ fileTree # Null => PathsOk(fileTree, <<>>, files)

C3_Witness ==
  /\ Built
  /\ fileTree # Null
  /\ \E k \in 1..Len(Flatten(fileTree)) :
       LET d == Flatten(fileTree)[k] IN
       /\ d.type = "directory"
       /\ Len(Split(d.path)) = 2
       /\ \E i \in 1..Len(d.children) : d.children[i].type = "file"

IsPrefix(p, q) == Len(p) <= Len(q) /\ SubSeq(q, 1, Len(p)) = p

\* C4: for two paths of the mapping that share a directory prefix and differ
\* in a later segment, the tree holds exactly one directory node with that
\* prefix as its path and the file nodes of both paths are below that node.
C4_SharedPrefixOneDir ==
  Built =>
    \A i, j \in 1..Len(files) :
      (/\ i # j
       /\ ~IsPrefix(Split(files[i].path), Split(files[j].path))
       /\ ~IsPrefix(Split(files[j].path), Split(files[i].path))) =>
        LET pi == Split(files[i].path)
            pj == Split(files[j].path)
            nodes == BuiltNodes(files)
        IN \A k \in 1..(Len(pi) - 1) :
             (k < Len(pj) /\ SubSeq(pi, 1, k) = SubSeq(pj, 1, k)) =>
               LET dirs == {x \in 1..Len(nodes) :
                              /\ nodes[x].type = "directory"
                              /\ nodes[x].path = Join(SubSeq(pi, 1, k))}
               IN /\ Cardinality(dirs) = 1
                  /\ \A x \in dirs :
                       \A p \in {files[i].path, files[j].path} :
                         \E y \in 1..Len(Flatten(nodes[x])) :
                           /\ Flatten(nodes[x])[y].type = "file"
                           /\ Flatten(nodes[x])[y].path = p

\* C8: for a non-empty mapping the displayed tree is the node of the first
\* segment of the first path (a directory when that path has more segments,
\* a file otherwise) and no entry with another first segment is in it.
C8_FirstTopLevelEntry ==
  (Built /\ Len(files) > 0) =>
    LET parts == Split(files[1].path) IN
    /\ fileTree # Null
    /\ fileTree.name = parts[1]
    /\ fileTree.type = (IF Len(parts) > 1 THEN "directory" ELSE "file")
    /\ \A i \in 1..Len(files) :
         TopSegment(files[i].path) # parts[1] => files[i].path \notin NodePaths(fileTree)

C8_Witness ==
  /\ Built
  /\ Len(files) >= 2
  /\ fileTree # Null
  /\ fileTree.type = "directory"
  /\ \E i \in 1..Len(files) : TopSegment(files[i].path) # TopSegment(files[1].path)

\* a step that handled a click on a path the rendered mapping does not hold
Missed == lastClick # NoClick /\ MapGet(rendered, lastClick) = Null

\* C5: selecting a path that is not a key of the mapping leaves selectedFile
\* (and the metadata card) exactly as it was.
C5_MissKeepsSelection ==
  [][Missed' => (selectedFile' = selectedFile /\ metadata' = metadata)]_vars

C5_Witness == Missed /\ selectedFile # Null /\ metadata # Null

\* C6 as stated: after a selection of a path missing from the mapping nothing
\* is selected and the card shows the placeholder, whatever was selected before.
C6_MissClearsSelection ==
  [][Missed' => (selectedFile' = Null /\ metadata' = Null)]_vars

\* C6 amended: after a selection of a path missing from the mapping nothing
\* is selected exactly when nothing was selected before, and the card shows
\* the placeholder exactly when nothing is selected.
C6_MissClearsNothing ==
  [][Missed' => /\ (selectedFile' = Null) <=> (selectedFile = Null)
                /\ (metadata' = Null) <=> (selectedFile' = Null)]_vars

C6_Witness == Missed /\ selectedFile = Null /\ metadata = Null /\ Len(rendered) > 0

\* C7: whenever updateFileTree has run on an empty mapping, fileTree is null,
\* isLoading is false and the pane shows the placeholder; so it is initially
\* and whenever an empty mapping has been rendered and its effect has run.
C7_EmptyShowsPlaceholder ==
  /\ []((files = <<>> /\ rendered = <<>> /\ ~needsRender /\ ~effectPending)
         => (fileTree = Null /\ ~isLoading /\ View = "placeholder"))
  /\ [][((files' # files \/ (effectPending /\ ~effectPending')) /\ rendered = <<>>)
         => (fileTree' = Null /\ ~isLoading' /\ View' = "placeholder")]_vars

C7_Witness ==
  /\ files = <<>>
  /\ Quiescent
  /\ selectedFile # Null
  /\ View = "placeholder"

\* C10: once the callbacks, the re-render and the effect of the last change
\* have run, fileTree is the builder's result on the current mapping.
C10_TreeFollowsMapping == Quiescent => fileTree = UpdatedTree(files)

C10_Witness ==
  /\ Quiescent
  /\ Len(files) >= 2
  /\ selectedFile # Null
  /\ ~MapHas(files, selectedFile.path)
  /\ fileTree # Null

\* floor(100 * (bytes % d) / d) for d a power of 1024
TruncHundredths(bytes, d) ==
  LET m == d \div 1024
      r == bytes % d
  IN (100 * (r \div m) + ((100 * (r % m)) \div m)) \div 1024

\* h hundredths written with two decimals, then the unit
Fixed2(h, unit) ==
  Digits(h \div 100) \o <<".">> \o <<DigitChars[((h % 100) \div 10) + 1]>>
    \o <<DigitChars[(h % 10) + 1]>> \o unit

\* bytes / d to two decimals: the hundredth below or the one above
TwoDecimals(text, bytes, d, unit) ==
  LET h == 100 * (bytes \div d) + TruncHundredths(bytes, d) IN
  text \in {Fixed2(h, unit), Fixed2(h + 1, unit)}

\* C9: the size text has the unit of the tier of the byte count (bytes below
\* 1024, KB below 1048576, MB below 1073741824, GB from there), an integer for
\* bytes and the quotient to two decimals otherwise; the six listed values.
C9_SizeText ==
  metadata # Null =>
    LET n == selectedFile.size
        text == metadata.size
    IN /\ n < 1024 => text = Digits(n) \o <<" ", "b", "y", "t", "e", "s">>
       /\ (1024 <= n /\ n < 1048576) => TwoDecimals(text, n, 1024, <<" ", "K", "B">>)
       /\ (1048576 <= n /\ n < 1073741824) => TwoDecimals(text, n, 1048576, <<" ", "M", "B">>)
       /\ 1073741824 <= n => TwoDecimals(text, n, 1073741824, <<" ", "G", "B">>)
       /\ n = 0 => text = <<"0", " ", "b", "y", "t", "e", "s">>
       /\ n = 1023 => text = <<"1", "0", "2", "3", " ", "b", "y", "t", "e", "s">>
       /\ n = 1024 => text = <<"1", ".", "0", "0", " ", "K", "B">>
       /\ n = 1536 => text = <<"1", ".", "5", "0", " ", "K", "B">>
       /\ n = 1048576 => text = <<"1", ".", "0", "0", " ", "M", "B">>
       /\ n = 1073741824 => text = <<"1", ".", "0", "0", " ", "G", "B">>

C9_Witness ==
  /\ metadata # Null
  /\ selectedFile.size = 1536
  /\ metadata.size = <<"1", ".", "5", "0", " ", "K", "B">>

====
